---------------------------- MODULE Spec2Model ----------------------------
(***************************************************************************)
(* Model of the object-storage service (services/s3_service.py) and of the *)
(* backup trigger (products/views.py: admin_backup) of the catalog         *)
(* backend.  The storage backend (boto3 / S3) is the environment: every    *)
(* backend call ends either normally, with a botocore ClientError, or with *)
(* an exception that is not a ClientError (EndpointConnectionError,        *)
(* NoCredentialsError, ... are BotoCoreError subclasses).                  *)
(***************************************************************************)
EXTENDS Integers, Sequences, FiniteSets, TLC

VARIABLES
    config,     \* rows of the Config table: <<>> or <<[bucket_name, backup_bucket]>>
    pages,      \* the pages the backend's list_objects_v2 paginator yields for the source
    pc,         \* position of the admin_backup request
    source,     \* copy_all_files argument source_bucket
    target,     \* copy_all_files argument target_bucket
    pageIdx,    \* number of pages fetched so far by the paginator
    objIdx,     \* number of objects of the current page already handled
    results,    \* the local dict `results` of copy_all_files
    calls,      \* the backend calls issued so far, in order
    outcome,    \* how copy_all_files ended: "none", "report" or "raised"
    report,     \* the value copy_all_files returned: <<>> or <<results>>
    response,   \* the JsonResponse of admin_backup: <<>> or <<record>>
    method,     \* request.method of the admin_backup request ("" before it arrives)
    client,     \* S3Service() in admin_backup: "none", "built" or "failed"
    req,        \* the single-object request at hand (upload / delete / exists)
    reply,      \* how that request ended: <<>> or <<record>>
    products,   \* the Product table: products[pk] is the row's image key, 0 = no row
    bucket,     \* the keys of the objects held by the service's bucket
    nextKey,    \* number of keys generated so far (uuid4: every key is fresh)
    cat         \* the product_create / product_update request at hand

vars == <<config, pages, pc, source, target, pageIdx, objIdx, results, calls,
          outcome, report, response, method, client, req, reply,
          products, bucket, nextKey, cat>>

catVars == <<products, bucket, nextKey, cat>>

backupStoreVars == <<config, pages, pc, source, target, pageIdx, objIdx, results,
                     calls, outcome, report, response, method, client, req, reply>>

(***************************************************************************)
(* Bounds of the model.                                                    *)
(***************************************************************************)
MaxKeys == 3        \* object keys of the source bucket are 1..MaxKeys
MaxPages == 3       \* a listing has at most this many pages
MaxProducts == 2    \* primary keys of the Product table are 1..MaxProducts
MaxUploads == 3     \* at most this many image keys are generated

(***************************************************************************)
(* Helpers on sequences.                                                   *)
(***************************************************************************)
RECURSIVE Flatten(_)
Flatten(ss) == IF ss = <<>> THEN <<>> ELSE Head(ss) \o Flatten(Tail(ss))

Ascending(s) == \A i \in 1..Len(s) : \A j \in 1..Len(s) : i < j => s[i] < s[j]

SeqsUpTo(S, n) == UNION { [1..k -> S] : k \in 0..n }

(***************************************************************************)
(* The environment: buckets, keys, listings, backend outcomes.             *)
(***************************************************************************)
DefaultBucket == "jfm02"
Buckets == {DefaultBucket, "respaldo"}
Keys == 1..MaxKeys

\* A page of list_objects_v2: the 'Contents' entry is absent when the page
\* holds no object.
NoContents == [has_contents |-> FALSE, contents |-> <<>>]
Page(keys) == [has_contents |-> TRUE, contents |-> keys]
Contents(page) == IF page.has_contents THEN page.contents ELSE <<>>

\* The keys of a set in ascending order (S3 lists keys in ascending order).
RECURSIVE SortedSeq(_)
SortedSeq(S) ==
    IF S = {} THEN <<>>
    ELSE LET m == CHOOSE x \in S : \A y \in S : x <= y
         IN <<m>> \o SortedSeq(S \ {m})

PageSet == {NoContents} \cup { Page(SortedSeq(S)) : S \in SUBSET Keys }

ListedKeys(pp) == Flatten([i \in 1..Len(pp) |-> Contents(pp[i])])

\* Listings the backend can produce: at least one page, keys in ascending
\* order without repetition over the whole listing.
Listings ==
    { pp \in SeqsUpTo(PageSet, MaxPages) :
        /\ Len(pp) >= 1
        /\ Ascending(ListedKeys(pp)) }

ClientErrors == {"AccessDenied", "NoSuchKey"}          \* botocore ClientError codes
OtherErrors == {"EndpointConnectionError"}             \* not a ClientError
BackendOutcomes == {"ok"} \cup ClientErrors \cup OtherErrors

IsClientError(o) == o \in ClientErrors
IsOtherError(o) == o \in OtherErrors


(***************************************************************************)
(* Initial state: an empty Config table, no request in progress.  The      *)
(* listing the backend will serve is fixed here.                           *)
(***************************************************************************)
EmptyResults == [success_count |-> 0, failed_files |-> <<>>, total_processed |-> 0]

NoReq == [op |-> "none", key |-> <<>>,
          file |-> [has_name |-> FALSE, name |-> <<>>, closed |-> FALSE]]

InitBackup ==
    /\ config = <<>>
    /\ pages \in Listings
    /\ pc = "idle"
    /\ source = ""
    /\ target = ""
    /\ pageIdx = 0
    /\ objIdx = 0
    /\ results = EmptyResults
    /\ calls = <<>>
    /\ outcome = "none"
    /\ report = <<>>
    /\ response = <<>>
    /\ method = ""
    /\ client = "none"

\* No catalog request yet: an empty Product table and an empty bucket.
NoCat == [op |-> "none", stage |-> "idle", pk |-> 0, key |-> 0, old |-> 0,
          ctor |-> "", probe |-> "", built |-> FALSE, upload |-> "",
          deleted |-> 0, save |-> ""]

InitCatalog ==
    /\ products = [pk \in 1..MaxProducts |-> 0]
    /\ bucket = {}
    /\ nextKey = 0
    /\ cat = NoCat

Init ==
    /\ InitBackup
    /\ req = NoReq
    /\ reply = <<>>
    /\ InitCatalog


(***************************************************************************)
(* Configuration rows.  The Config model is registered with the Django     *)
(* admin, whose form applies the model's field rules only: bucket_name is  *)
(* required, backup_bucket may be blank.                                   *)
(***************************************************************************)
ConfigRow(bn, bb) == [bucket_name |-> bn, backup_bucket |-> bb]

\* admin_panel: creates the default row when the table is empty.
AdminPanel ==
    /\ pc = "idle"
    /\ config' = IF config = <<>> THEN <<ConfigRow(DefaultBucket, "")>> ELSE config
    /\ UNCHANGED <<pages, pc, source, target, pageIdx, objIdx, results, calls,
                   outcome, report, response, method, client, req, reply>>
    /\ UNCHANGED catVars

\* ConfigAdmin: an administrator saves the row.
ConfigAdminSave(bn, bb) ==
    /\ pc = "idle"
    /\ config' = <<ConfigRow(bn, bb)>>
    /\ UNCHANGED <<pages, pc, source, target, pageIdx, objIdx, results, calls,
                   outcome, report, response, method, client, req, reply>>
    /\ UNCHANGED catVars

(***************************************************************************)
(* S3Service.__init__ and _test_connection.                                *)
(***************************************************************************)
CtorOutcomes == {"ok", "NoCredentialsError"}     \* of boto3.client(...)
ProbeOutcomes == {"ok", "404", "EndpointConnectionError"}   \* of head_bucket
\* head_bucket is also where boto3 first notices missing credentials
\* (NoCredentialsError, raised when the request is signed) and where invalid
\* ones are refused (ClientError 403).
CredentialProbeOutcomes == ProbeOutcomes \cup {"403", "NoCredentialsError"}

\* _test_connection: every probe failure is logged and swallowed.
TestConnection(po) == "ok"

\* __init__: TRUE iff a service object is produced.
S3ServiceInit(co, po) ==
    IF co = "NoCredentialsError" THEN FALSE
    ELSE TestConnection(po) = "ok"

HeadBucketCall(po) == [op |-> "head_bucket", src |-> DefaultBucket, dst |-> "",
                       key |-> 0, out |-> po]
ListCall(b, o) == [op |-> "list", src |-> b, dst |-> "", key |-> 0, out |-> o]
CopyCall(sb, tb, k, o) == [op |-> "copy", src |-> sb, dst |-> tb, key |-> k, out |-> o]

(***************************************************************************)
(* The JsonResponse values of admin_backup.                                *)
(***************************************************************************)
ErrorResponse(kind) ==
    [success |-> FALSE, warning |-> FALSE, error |-> kind, results |-> <<>>]

\* Mutant: the branch on failed_files is lost.
BackupResponseNoWarning(res) ==
    [success |-> TRUE, warning |-> FALSE, error |-> "", results |-> <<res>>]

BackupResponse(res) ==
    IF res.failed_files # <<>>
    THEN [success |-> TRUE, warning |-> TRUE, error |-> "", results |-> <<res>>]
    ELSE [success |-> TRUE, warning |-> FALSE, error |-> "", results |-> <<res>>]

(***************************************************************************)
(* admin_backup, up to the call of copy_all_files.                         *)
(***************************************************************************)
Methods == {"POST", "GET"}

\* Mutant: the check of the backup bucket is lost.
BackupBucketNeverMissing(cfg) == FALSE

\* `not config.backup_bucket`
BackupBucketMissing(cfg) == cfg.backup_bucket = ""

AdminBackup(m, co, po) ==
    /\ pc = "idle"
    /\ method' = m
    /\ IF m # "POST"
       THEN /\ response' = <<ErrorResponse("method_not_allowed")>>
            /\ pc' = "done"
            /\ UNCHANGED <<source, target, calls, outcome, client>>
       ELSE IF config = <<>>
       THEN /\ response' = <<ErrorResponse("no_config")>>
            /\ pc' = "done"
            /\ UNCHANGED <<source, target, calls, outcome, client>>
       ELSE IF BackupBucketMissing(config[1])
       THEN /\ response' = <<ErrorResponse("no_backup_bucket")>>
            /\ pc' = "done"
            /\ UNCHANGED <<source, target, calls, outcome, client>>
       ELSE IF ~S3ServiceInit(co, po)
       THEN /\ client' = "failed"
            /\ response' = <<ErrorResponse("backup_error")>>
            /\ pc' = "done"
            /\ calls' = IF co = "ok" THEN Append(calls, HeadBucketCall(po)) ELSE calls
            /\ UNCHANGED <<source, target, outcome>>
       ELSE /\ client' = "built"
            /\ source' = config[1].bucket_name
            /\ target' = config[1].backup_bucket
            /\ calls' = Append(calls, HeadBucketCall(po))
            /\ pc' = "paging"
            /\ outcome' = "running"
            /\ UNCHANGED response
    /\ UNCHANGED <<config, pages, pageIdx, objIdx, results, report, req, reply>>
    /\ UNCHANGED catVars

(***************************************************************************)
(* copy_all_files.  The paginator is lazy: each turn of `for page in       *)
(* pages` issues one list request; the loop ends after the page that       *)
(* carries no continuation token (the last page of `pages`).               *)
(***************************************************************************)
\* Any exception leaving the outer try is re-raised as Exception and caught
\* by admin_backup, which answers with an error.
\* Mutant: the except clause hands back the partial results.
RaiseReturnsPartial ==
    /\ outcome' = "report"
    /\ report' = <<results>>
    /\ response' = <<BackupResponse(results)>>
    /\ pc' = "done"

Raise ==
    /\ outcome' = "raised"
    /\ report' = <<>>
    /\ response' = <<ErrorResponse("backup_error")>>
    /\ pc' = "done"

ListPage(o) ==
    /\ pc = "paging"
    /\ pageIdx < Len(pages)
    /\ calls' = Append(calls, ListCall(source, o))
    /\ IF o # "ok"
       THEN /\ Raise
            /\ UNCHANGED <<pageIdx, objIdx>>
       ELSE /\ pageIdx' = pageIdx + 1
            /\ objIdx' = 0
            /\ pc' = IF pages[pageIdx + 1].has_contents
                        /\ pages[pageIdx + 1].contents # <<>>
                     THEN "copying" ELSE "paging"
            /\ UNCHANGED <<outcome, report, response>>
    /\ UNCHANGED <<config, pages, source, target, results, method, client, req, reply>>
    /\ UNCHANGED catVars

\* results after the copy of key ended with outcome o (o is not an
\* exception other than ClientError).
\* Mutant: the counter is bumped only once the copy has succeeded.
CountedLate(res) == res

Counted(res) == [res EXCEPT !.total_processed = @ + 1]

\* Mutant: a failure is put in front of failed_files.
AfterCopyPrepends(res, key, o) ==
    IF o = "ok"
    THEN [res EXCEPT !.success_count = @ + 1]
    ELSE [res EXCEPT !.failed_files = <<[key |-> key, error |-> o]>> \o @]

AfterCopy(res, key, o) ==
    IF o = "ok"
    THEN [res EXCEPT !.success_count = @ + 1]
    ELSE [res EXCEPT !.failed_files = Append(@, [key |-> key, error |-> o])]

CopyObject(o) ==
    /\ pc = "copying"
    /\ LET page == pages[pageIdx].contents
           key == page[objIdx + 1]
       IN /\ calls' = Append(calls, CopyCall(source, target, key, o))
          /\ IF IsOtherError(o)
             THEN /\ results' = Counted(results)
                  /\ Raise
                  /\ UNCHANGED objIdx
             ELSE /\ results' = AfterCopy(Counted(results), key, o)
                  /\ objIdx' = objIdx + 1
                  /\ pc' = IF objIdx + 1 = Len(page) THEN "paging" ELSE "copying"
                  /\ UNCHANGED <<outcome, report, response>>
    /\ UNCHANGED <<config, pages, source, target, pageIdx, method, client, req, reply>>
    /\ UNCHANGED catVars

ReturnResults ==
    /\ pc = "paging"
    /\ pageIdx = Len(pages)
    /\ outcome' = "report"
    /\ report' = <<results>>
    /\ response' = <<BackupResponse(results)>>
    /\ pc' = "done"
    /\ UNCHANGED <<config, pages, source, target, pageIdx, objIdx, results, calls,
                   method, client, req, reply>>
    /\ UNCHANGED catVars

NextBackup ==
    \/ AdminPanel
    \/ \E bn \in Buckets : \E bb \in Buckets \cup {""} : ConfigAdminSave(bn, bb)
    \/ \E m \in Methods : \E co \in CtorOutcomes : \E po \in ProbeOutcomes :
          AdminBackup(m, co, po)
    \/ \E o \in BackendOutcomes : ListPage(o)
    \/ \E o \in BackendOutcomes : CopyObject(o)
    \/ ReturnResults

Spec == Init /\ [][NextBackup]_vars


(***************************************************************************)
(* Views of the call log used by the properties below.                     *)
(***************************************************************************)
IsCopy(c) == c.op = "copy"
IsList(c) == c.op = "list"
IsFailedCopy(c) == c.op = "copy" /\ c.out # "ok"
IsGoodCopy(c) == c.op = "copy" /\ c.out = "ok"

CopyCalls == SelectSeq(calls, IsCopy)
ListCalls == SelectSeq(calls, IsList)
FailedCopies == SelectSeq(calls, IsFailedCopy)
GoodCopies == SelectSeq(calls, IsGoodCopy)

KeysOf(cs) == [i \in 1..Len(cs) |-> cs[i].key]
FailureEntries(cs) == [i \in 1..Len(cs) |-> [key |-> cs[i].key, error |-> cs[i].out]]

RunStarted == outcome # "none"
ListingNeverFailed == \A i \in 1..Len(calls) : IsList(calls[i]) => calls[i].out = "ok"
BackupUnset == config = <<>> \/ config[1].backup_bucket = ""

(***************************************************************************)
(* C1.  Every report copy_all_files returns satisfies                      *)
(* total_processed = success_count + len(failed_files).                    *)
(***************************************************************************)
C1_ReportIdentity ==
    report # <<>> =>
        report[1].total_processed
            = report[1].success_count + Len(report[1].failed_files)

C1_Witness ==
    /\ report # <<>>
    /\ report[1].success_count >= 1
    /\ Len(report[1].failed_files) >= 1
    /\ Len(ListCalls) >= 2

(***************************************************************************)
(* C2.  A failed copy of one object is never fatal: whatever the failure,  *)
(* the key and its error detail are in failed_files and the run goes on    *)
(* (it is not ended by a raised exception because of a copy).               *)
(***************************************************************************)
C2_CopyFailureNeverFatal ==
    /\ results.failed_files = FailureEntries(FailedCopies)
    /\ (outcome = "raised" => IsList(calls[Len(calls)]))

(***************************************************************************)
(* C3.  With target bucket = source bucket the replication fails fast: no  *)
(* list call, no copy call, no report.                                     *)
(***************************************************************************)
C3_SameBucketFailsFast ==
    (method = "POST" /\ config # <<>>
        /\ config[1].backup_bucket = config[1].bucket_name) =>
            /\ ListCalls = <<>>
            /\ CopyCalls = <<>>
            /\ report = <<>>

(***************************************************************************)
(* C4.  A backup request (POST) that finds the backup bucket unset or      *)
(* empty is answered with a configuration error; no storage client is      *)
(* constructed and no backend call (probe, list, copy) is made.            *)
(***************************************************************************)
C4_UnsetBackupBucketFailsFast ==
    (method = "POST" /\ BackupUnset) =>
        /\ pc = "done"
        /\ response # <<>>
        /\ ~response[1].success
        /\ response[1].error \in {"no_config", "no_backup_bucket"}
        /\ response[1].results = <<>>
        /\ client = "none"
        /\ calls = <<>>
        /\ outcome = "none"
        /\ report = <<>>

C4_Witness ==
    /\ method = "POST"
    /\ config # <<>>
    /\ config[1].backup_bucket = ""
    /\ response # <<>>

(***************************************************************************)
(* C5.  When the listing never fails, every run requests every page and    *)
(* attempts the copy of every listed object exactly once, in listing       *)
(* order, each page being finished before the next is requested.           *)
(***************************************************************************)
\* The copy attempts made so far are the first listed keys, in order; the
\* k-th list request comes after the copies of the pages before it.
AttemptsFollowListing ==
    /\ Len(CopyCalls) <= Len(ListedKeys(pages))
    /\ KeysOf(CopyCalls) = SubSeq(ListedKeys(pages), 1, Len(CopyCalls))
    /\ Len(CopyCalls) <= Len(ListedKeys(SubSeq(pages, 1, pageIdx)))
    /\ (pc = "paging" =>
            Len(CopyCalls) = Len(ListedKeys(SubSeq(pages, 1, pageIdx))))

C5_EveryListedObjectAttempted ==
    /\ (RunStarted /\ ListingNeverFailed) => AttemptsFollowListing
    /\ (RunStarted /\ ListingNeverFailed /\ pc = "done") =>
            /\ Len(ListCalls) = Len(pages)
            /\ KeysOf(CopyCalls) = ListedKeys(pages)

(***************************************************************************)
(* C6.  A failed list request, on the first page or on a later one, ends   *)
(* copy_all_files with an exception: no report is returned.                *)
(***************************************************************************)
ListingFailed == \E i \in 1..Len(calls) : IsList(calls[i]) /\ calls[i].out # "ok"

C6_ListingFailureIsFatal ==
    ListingFailed =>
        /\ outcome = "raised"
        /\ report = <<>>
        /\ pc = "done"
        /\ response = <<ErrorResponse("backup_error")>>

C6_Witness ==
    /\ ListingFailed
    /\ Len(ListCalls) >= 2
    /\ results.success_count >= 1

(***************************************************************************)
(* C7.  A returned report counts every listed object in total_processed,   *)
(* the successful copies in success_count, and holds in failed_files       *)
(* exactly the keys whose copy failed, in listing order.                   *)
(***************************************************************************)
C7_ReportContents ==
    report # <<>> =>
        /\ report[1].total_processed = Len(ListedKeys(pages))
        /\ report[1].success_count = Len(GoodCopies)
        /\ report[1].failed_files = FailureEntries(FailedCopies)
        /\ (Len(FailedCopies) = 1 =>
                /\ report[1].success_count = Len(ListedKeys(pages)) - 1
                /\ KeysOf(report[1].failed_files) = <<FailedCopies[1].key>>)

C7_Witness ==
    /\ report # <<>>
    /\ Len(ListedKeys(pages)) = 3
    /\ Len(FailedCopies) = 1
    /\ FailedCopies[1].key = 2


(***************************************************************************)
(* Single-object operations: upload_file, delete_file, file_exists.        *)
(*                                                                         *)
(* File names and keys are sequences of characters.  The names used as     *)
(* inputs are the concatenations of at most MaxTokens of the tokens below. *)
(***************************************************************************)
MaxTokens == 3

T_x == <<"x">>
T_dot == <<".">>
T_png == <<"p", "n", "g">>
T_jpg == <<"j", "p", "g">>
T_JPG == <<"J", "P", "G">>
T_jpeg == <<"j", "p", "e", "g">>
T_gif == <<"g", "i", "f">>
T_webp == <<"w", "e", "b", "p">>
T_bmp == <<"b", "m", "p">>
T_unknownext == <<"u", "n", "k", "n", "o", "w", "n", "e", "x", "t">>

Tokens == {T_x, T_dot, T_png, T_jpg, T_JPG, T_jpeg, T_gif, T_webp, T_bmp,
           T_unknownext}

Names == { Flatten(ts) : ts \in SeqsUpTo(Tokens, MaxTokens) }

\* A few names, used where the other input ranges over all of Names.
FewNames == { T_x \o T_dot \o T_png, T_x \o T_dot \o T_unknownext,
              T_x \o T_dot \o T_JPG, T_dot \o T_gif, T_x }

\* str.lower() on the characters in use.
LowerChar(c) ==
    CASE c = "J" -> "j"
      [] c = "P" -> "p"
      [] c = "G" -> "g"
      [] OTHER -> c

Lower(str) == [i \in 1..Len(str) |-> LowerChar(str[i])]

HasDot(str) == \E i \in 1..Len(str) : str[i] = "."

\* str.split('.')
RECURSIVE Split(_)
Split(str) ==
    IF ~HasDot(str) THEN <<str>>
    ELSE LET i == CHOOSE j \in 1..Len(str) :
                      str[j] = "." /\ \A k \in 1..(j - 1) : str[k] # "."
         IN <<SubSeq(str, 1, i - 1)>> \o Split(SubSeq(str, i + 1, Len(str)))

\* the dict content_types
content_types ==
    (T_jpg :> "image/jpeg") @@ (T_jpeg :> "image/jpeg") @@ (T_png :> "image/png")
    @@ (T_gif :> "image/gif") @@ (T_webp :> "image/webp") @@ (T_bmp :> "image/bmp")

\* Mutant: the extension is looked up without lower().
GetContentTypeNoLower(filename) ==
    LET parts == Split(filename)
        extension == IF HasDot(filename) THEN parts[Len(parts)] ELSE <<>>
    IN IF extension \in DOMAIN content_types
       THEN content_types[extension]
       ELSE "application/octet-stream"

\* _get_content_type
GetContentType(filename) ==
    LET parts == Split(Lower(filename))
        extension == IF HasDot(filename) THEN parts[Len(parts)] ELSE <<>>
    IN IF extension \in DOMAIN content_types
       THEN content_types[extension]
       ELSE "application/octet-stream"

\* getattr(file, 'name', key)
NameOrKey(file, key) == IF file.has_name THEN file.name ELSE key

\* The ContentType upload_file passes to upload_fileobj.
UploadContentType(file, key) == GetContentType(NameOrKey(file, key))

(***************************************************************************)
(* Backend outcomes of a single-object call, and the requests.             *)
(***************************************************************************)
StoreOtherErrors == OtherErrors \cup {"NoCredentialsError"}
StoreOutcomes == {"ok"} \cup ClientErrors \cup StoreOtherErrors

Stream(hasName, name, closed) == [has_name |-> hasName, name |-> name, closed |-> closed]
NoStream == Stream(FALSE, <<>>, FALSE)

Request(op, key, file) == [op |-> op, key |-> key, file |-> file]

\* The requests taken as inputs: an upload of an unnamed stream under every
\* key, an upload of a stream of every name under one key, uploads with the
\* few names on both sides (open and closed streams), and delete / exists
\* requests.
IsRequest(r) ==
    \/ \E k \in Names \ {<<>>} : r = Request("upload", k, NoStream)
    \/ \E n \in Names \ {<<>>} :
          r = Request("upload", T_x \o T_dot \o T_png, Stream(TRUE, n, FALSE))
    \/ \E k \in Names \ {<<>>} : \E n \in FewNames :
          r = Request("upload", k, Stream(TRUE, n, FALSE))
    \/ \E k \in FewNames : \E n \in FewNames : \E c \in BOOLEAN :
          r = Request("upload", k, Stream(TRUE, n, c))
    \/ \E k \in FewNames : r = Request("upload", k, Stream(FALSE, <<>>, TRUE))
    \/ \E k \in FewNames : \E op \in {"delete", "exists"} : r = Request(op, k, NoStream)

\* How a call ended: the value returned, or an exception raised to the
\* caller; the backend outcome ("" when the backend was not called); the
\* ContentType sent ("" when none was).
Reply(result, raised, backend, ctype) ==
    [result |-> result, raised |-> raised, backend |-> backend, ctype |-> ctype]

\* Mutant: only ClientError is caught, as in file_exists.
UploadReplyRaises(file, key, o) ==
    IF file.closed THEN Reply(FALSE, TRUE, "", "")
    ELSE IF o = "ok" THEN Reply(TRUE, FALSE, o, GetContentType(NameOrKey(file, key)))
    ELSE IF IsClientError(o) THEN Reply(FALSE, FALSE, o, GetContentType(NameOrKey(file, key)))
    ELSE Reply(FALSE, TRUE, o, GetContentType(NameOrKey(file, key)))

\* upload_file: seek(0) on a closed stream raises ValueError inside the try.
UploadReply(file, key, o) ==
    IF file.closed THEN Reply(FALSE, FALSE, "", "")
    ELSE IF o = "ok" THEN Reply(TRUE, FALSE, o, UploadContentType(file, key))
    ELSE IF IsClientError(o) THEN Reply(FALSE, FALSE, o, UploadContentType(file, key))
    ELSE Reply(FALSE, FALSE, o, UploadContentType(file, key))

\* delete_file
DeleteReply(key, o) ==
    IF o = "ok" THEN Reply(TRUE, FALSE, o, "")
    ELSE IF IsClientError(o) THEN Reply(FALSE, FALSE, o, "")
    ELSE Reply(FALSE, FALSE, o, "")

\* file_exists: only ClientError is caught.
ExistsReply(key, o) ==
    IF o = "ok" THEN Reply(TRUE, FALSE, o, "")
    ELSE IF IsClientError(o) THEN Reply(FALSE, FALSE, o, "")
    ELSE Reply(FALSE, TRUE, o, "")

UploadFile(o) ==
    /\ req.op = "upload"
    /\ reply = <<>>
    /\ reply' = <<UploadReply(req.file, req.key, o)>>
    /\ UNCHANGED <<config, pages, pc, source, target, pageIdx, objIdx, results,
                   calls, outcome, report, response, method, client, req>>
    /\ UNCHANGED catVars

DeleteFile(o) ==
    /\ req.op = "delete"
    /\ reply = <<>>
    /\ reply' = <<DeleteReply(req.key, o)>>
    /\ UNCHANGED <<config, pages, pc, source, target, pageIdx, objIdx, results,
                   calls, outcome, report, response, method, client, req>>
    /\ UNCHANGED catVars

FileExists(o) ==
    /\ req.op = "exists"
    /\ reply = <<>>
    /\ reply' = <<ExistsReply(req.key, o)>>
    /\ UNCHANGED <<config, pages, pc, source, target, pageIdx, objIdx, results,
                   calls, outcome, report, response, method, client, req>>
    /\ UNCHANGED catVars

InitStore ==
    /\ config = <<>>
    /\ pages = <<NoContents>>
    /\ pc = "idle"
    /\ source = ""
    /\ target = ""
    /\ pageIdx = 0
    /\ objIdx = 0
    /\ results = EmptyResults
    /\ calls = <<>>
    /\ outcome = "none"
    /\ report = <<>>
    /\ response = <<>>
    /\ method = ""
    /\ client = "none"
    /\ IsRequest(req)
    /\ reply = <<>>
    /\ InitCatalog

NextStore ==
    \/ \E o \in StoreOutcomes : UploadFile(o)
    \/ \E o \in StoreOutcomes : DeleteFile(o)
    \/ \E o \in StoreOutcomes : FileExists(o)

SpecStore == InitStore /\ [][NextStore]_vars


(***************************************************************************)
(* C8.  upload_file and delete_file never raise: they return False on any  *)
(* backend error and on a failed rewind of the stream, and True exactly    *)
(* when the backend call completed without error.                          *)
(***************************************************************************)
C8_UploadDeleteNeverRaise ==
    (req.op \in {"upload", "delete"} /\ reply # <<>>) =>
        /\ ~reply[1].raised
        /\ reply[1].result = (reply[1].backend = "ok")
        /\ (req.file.closed => reply[1].backend = "")

C8_Witness ==
    /\ req.op = "upload"
    /\ reply # <<>>
    /\ reply[1].backend = "EndpointConnectionError"
    /\ ~reply[1].result

(***************************************************************************)
(* C9.  The content type of an upload, by the fixed table                  *)
(* jpg/jpeg -> image/jpeg, png -> image/png, gif -> image/gif,             *)
(* webp -> image/webp, bmp -> image/bmp, otherwise                         *)
(* application/octet-stream, applied to a lower-cased extension: the part  *)
(* of the name after its last dot, empty when the name has no dot.         *)
(***************************************************************************)
ExtensionOf(str) ==
    IF \A i \in 1..Len(str) : str[i] # "." THEN <<>>
    ELSE LET last == CHOOSE j \in 1..Len(str) :
                         str[j] = "." /\ \A k \in (j + 1)..Len(str) : str[k] # "."
         IN [i \in 1..(Len(str) - last) |-> LowerChar(str[last + i])]

TableType(ext) ==
    CASE ext \in {T_jpg, T_jpeg} -> "image/jpeg"
      [] ext = T_png -> "image/png"
      [] ext = T_gif -> "image/gif"
      [] ext = T_webp -> "image/webp"
      [] ext = T_bmp -> "image/bmp"
      [] OTHER -> "application/octet-stream"

Transmitted == req.op = "upload" /\ reply # <<>> /\ reply[1].backend # ""

\* C9 as stated: the content type of every upload is the one of the key's
\* extension, whatever the stream.
C9_TypeFromKey ==
    Transmitted => reply[1].ctype = TableType(ExtensionOf(req.key))

\* C9 amended: the content type is the one of the extension of the stream's
\* name when the stream has a name attribute, and of the key's extension
\* otherwise; for a stream without a name, key "x.png" gives image/png and
\* key "x.unknownext" gives application/octet-stream.
C9_TypeFromNameElseKey ==
    Transmitted =>
        /\ req.file.has_name =>
                reply[1].ctype = TableType(ExtensionOf(req.file.name))
        /\ ~req.file.has_name =>
                /\ reply[1].ctype = TableType(ExtensionOf(req.key))
                /\ (req.key = T_x \o T_dot \o T_png => reply[1].ctype = "image/png")
                /\ (req.key = T_x \o T_dot \o T_unknownext =>
                        reply[1].ctype = "application/octet-stream")

C9_Witness ==
    /\ Transmitted
    /\ req.key = T_x \o T_dot \o T_png
    /\ req.file.has_name
    /\ req.file.name = T_x \o T_dot \o T_JPG
    /\ reply[1].ctype = "image/jpeg"

(***************************************************************************)
(* C10.  file_exists returns true when the probe succeeds, false on any    *)
(* backend error, and never raises.                                        *)
(***************************************************************************)
C10_ExistsNeverRaises ==
    (req.op = "exists" /\ reply # <<>>) =>
        /\ ~reply[1].raised
        /\ reply[1].result = (reply[1].backend = "ok")


(***************************************************************************)
(* The catalog views product_create and product_update.  A valid           *)
(* ProductForm of product_create always carries an image (the image field  *)
(* is required).  Keys are products/<uuid4><ext>: every key is new.        *)
(***************************************************************************)
SaveOutcomes == {"ok", "DatabaseError"}          \* of product.save()

\* The uploaded file: it carries its original file name.
ImageFile == Stream(TRUE, T_x \o T_dot \o T_png, FALSE)

AtRest == cat.stage \in {"idle", "end"}

FreePks == { pk \in 1..MaxProducts : products[pk] = 0 }

\* What a request records of S3Service(): the outcome of boto3.client, of the
\* probe (made only when the client was created), and whether a service
\* object was produced.
Construction(co, po) ==
    [ctor |-> co, probe |-> IF co = "ok" THEN po ELSE "", built |-> S3ServiceInit(co, po)]

\* Mutant: the result of upload_file is not looked at.
HandleImageUploadIgnoresResult(key, co, po, uo) == S3ServiceInit(co, po)

\* handle_image_upload: the success flag it returns.
HandleImageUpload(key, co, po, uo) ==
    IF ~S3ServiceInit(co, po) THEN FALSE          \* S3Service() raised: "S3_error"
    ELSE UploadReply(ImageFile, key, uo).result

\* product_create up to product.save(): handle_image_upload.
ProductCreate(co, po, uo) ==
    /\ AtRest
    /\ nextKey < MaxUploads
    /\ FreePks # {}
    /\ LET key == nextKey + 1
           pk == CHOOSE x \in FreePks : \A y \in FreePks : x <= y
           c == Construction(co, po)
           success == HandleImageUpload(key, co, po, uo)
       IN /\ nextKey' = key
          /\ bucket' = IF c.built /\ uo = "ok" THEN bucket \cup {key} ELSE bucket
          /\ cat' = [op |-> "create", stage |-> IF success THEN "saving" ELSE "end",
                     pk |-> pk, key |-> key, old |-> 0,
                     ctor |-> c.ctor, probe |-> c.probe, built |-> c.built,
                     upload |-> IF c.built THEN uo ELSE "",
                     deleted |-> 0, save |-> ""]
    /\ UNCHANGED products
    /\ UNCHANGED backupStoreVars

\* product.save() of product_create; an exception rolls the transaction back.
CreateSave(so) ==
    /\ cat.op = "create"
    /\ cat.stage = "saving"
    /\ products' = IF so = "ok" THEN [products EXCEPT ![cat.pk] = cat.key] ELSE products
    /\ cat' = [cat EXCEPT !.stage = "end", !.save = so]
    /\ UNCHANGED <<bucket, nextKey>>
    /\ UNCHANGED backupStoreVars

\* product_update up to the upload of the new image (or, without a new
\* image, up to form.save()).
ProductUpdate(pk, newImage, co, po, uo) ==
    /\ AtRest
    /\ products[pk] # 0
    /\ newImage => nextKey < MaxUploads
    /\ LET c == Construction(co, po)
           old == products[pk]
           key == IF newImage THEN nextKey + 1 ELSE old
           upload_success == UploadReply(ImageFile, key, uo).result
       IN IF ~c.built
          THEN /\ cat' = [op |-> "update", stage |-> "end", pk |-> pk, key |-> old,
                          old |-> old, ctor |-> c.ctor, probe |-> c.probe,
                          built |-> FALSE, upload |-> "", deleted |-> 0, save |-> ""]
               /\ UNCHANGED <<bucket, nextKey>>
          ELSE IF ~newImage
          THEN /\ cat' = [op |-> "update", stage |-> "saving", pk |-> pk, key |-> old,
                          old |-> old, ctor |-> c.ctor, probe |-> c.probe,
                          built |-> TRUE, upload |-> "", deleted |-> 0, save |-> ""]
               /\ UNCHANGED <<bucket, nextKey>>
          ELSE /\ nextKey' = key
               /\ bucket' = IF uo = "ok" THEN bucket \cup {key} ELSE bucket
               /\ cat' = [op |-> "update",
                          stage |-> IF upload_success THEN "deleting" ELSE "end",
                          pk |-> pk, key |-> key, old |-> old,
                          ctor |-> c.ctor, probe |-> c.probe, built |-> TRUE,
                          upload |-> uo, deleted |-> 0, save |-> ""]
    /\ UNCHANGED products
    /\ UNCHANGED backupStoreVars

\* s3_service.delete_file(old_image_name): its result is not looked at.
UpdateDelete(do) ==
    /\ cat.op = "update"
    /\ cat.stage = "deleting"
    /\ bucket' = IF do = "ok" THEN bucket \ {cat.old} ELSE bucket
    /\ cat' = [cat EXCEPT !.stage = "saving",
                          !.deleted = IF do = "ok" THEN cat.old ELSE 0]
    /\ UNCHANGED <<products, nextKey>>
    /\ UNCHANGED backupStoreVars

\* product.save() / form.save() of product_update.
UpdateSave(so) ==
    /\ cat.op = "update"
    /\ cat.stage = "saving"
    /\ products' = IF so = "ok" THEN [products EXCEPT ![cat.pk] = cat.key] ELSE products
    /\ cat' = [cat EXCEPT !.stage = "end", !.save = so]
    /\ UNCHANGED <<bucket, nextKey>>
    /\ UNCHANGED backupStoreVars

InitCatalogSpec ==
    /\ config = <<>>
    /\ pages = <<NoContents>>
    /\ pc = "idle"
    /\ source = ""
    /\ target = ""
    /\ pageIdx = 0
    /\ objIdx = 0
    /\ results = EmptyResults
    /\ calls = <<>>
    /\ outcome = "none"
    /\ report = <<>>
    /\ response = <<>>
    /\ method = ""
    /\ client = "none"
    /\ req = NoReq
    /\ reply = <<>>
    /\ InitCatalog

NextCatalog ==
    \/ \E co \in CtorOutcomes : \E po \in CredentialProbeOutcomes :
          \E uo \in StoreOutcomes : ProductCreate(co, po, uo)
    \/ \E so \in SaveOutcomes : CreateSave(so)
    \/ \E pk \in 1..MaxProducts : \E newImage \in BOOLEAN :
          \E co \in CtorOutcomes : \E po \in CredentialProbeOutcomes :
            \E uo \in StoreOutcomes : ProductUpdate(pk, newImage, co, po, uo)
    \/ \E do \in StoreOutcomes : UpdateDelete(do)
    \/ \E so \in SaveOutcomes : UpdateSave(so)

SpecCatalog == InitCatalogSpec /\ [][NextCatalog]_vars

(***************************************************************************)
(* C11.  Constructing the storage client: a failed reachability probe      *)
(* (bucket missing, access denied, other backend error) is only logged and *)
(* a client is produced; absent credentials, whether noticed by            *)
(* boto3.client or first by the probe, produce no client.                  *)
(***************************************************************************)
C11_ConstructionPolicy ==
    cat.op # "none" =>
        /\ (cat.ctor = "ok" /\ cat.probe \in {"404", "403", "EndpointConnectionError"})
              => cat.built
        /\ (cat.ctor = "NoCredentialsError" \/ cat.probe = "NoCredentialsError")
              => ~cat.built


(***************************************************************************)
(* C12.  admin_backup (POST) always answers with a structured result:      *)
(* "fully succeeded" exactly when the run returned a report without failed *)
(* items, "succeeded with warnings" exactly when it returned a report with *)
(* failed items, "failed outright" exactly when the configuration is       *)
(* missing, S3Service() failed or the run raised; both success answers     *)
(* carry the report (total processed, success count, failed keys).         *)
(***************************************************************************)
C12_StructuredResult ==
    /\ (pc = "done") <=> (response # <<>>)
    /\ (response # <<>> /\ method = "POST") =>
          LET r == response[1]
          IN /\ (r.success /\ ~r.warning)
                   <=> (report # <<>> /\ report[1].failed_files = <<>>)
             /\ (r.success /\ r.warning)
                   <=> (report # <<>> /\ report[1].failed_files # <<>>)
             /\ (~r.success)
                   <=> (BackupUnset \/ client = "failed" \/ outcome = "raised")
             /\ r.success => (r.results = report /\ r.error = "")
             /\ ~r.success => (r.results = <<>> /\ r.error # "" /\ ~r.warning)

C12_Witness ==
    /\ method = "POST"
    /\ response # <<>>
    /\ response[1].success
    /\ response[1].warning
    /\ response[1].results[1].success_count >= 1

(***************************************************************************)
(* C13.  A replication run never deletes or mutates the source bucket:     *)
(* it issues only list requests on the source bucket and copy requests     *)
(* from (source, key) to (target, key) for the keys listed, in order, and  *)
(* no request writes an object of the source bucket.                       *)
(***************************************************************************)
\* The calls of the run: all but the probe of S3Service().
IsRunCall(c) == c.op # "head_bucket"
RunCalls == SelectSeq(calls, IsRunCall)

OnlyListAndCopy ==
    /\ \A i \in 1..Len(RunCalls) :
          \/ IsList(RunCalls[i]) /\ RunCalls[i].src = source
          \/ IsCopy(RunCalls[i]) /\ RunCalls[i].src = source
                                 /\ RunCalls[i].dst = target
    /\ Len(CopyCalls) <= Len(ListedKeys(pages))
    /\ KeysOf(CopyCalls) = SubSeq(ListedKeys(pages), 1, Len(CopyCalls))

NoWriteToSource ==
    \A i \in 1..Len(RunCalls) : IsGoodCopy(RunCalls[i]) => RunCalls[i].dst # source

C13_SourceUntouched == OnlyListAndCopy /\ NoWriteToSource


(***************************************************************************)
(* C14.  product_create saves the record only after the image upload has   *)
(* succeeded: a request whose upload failed or raised persists no record;  *)
(* and a successful upload is never undone, so that a failed save leaves   *)
(* an object in the bucket that no record references.                      *)
(***************************************************************************)
Referenced(key) == \E pk \in 1..MaxProducts : products[pk] = key

C14_SaveOnlyAfterUpload ==
    cat.op = "create" =>
        /\ cat.upload # "ok" =>
              (products[cat.pk] = 0 /\ cat.save = "" /\ cat.stage = "end")
        /\ cat.stage = "saving" => (cat.upload = "ok" /\ products[cat.pk] = 0)
        /\ cat.save = "ok" =>
              (cat.upload = "ok" /\ products[cat.pk] = cat.key /\ cat.key \in bucket)
        /\ cat.upload = "ok" => cat.key \in bucket
        /\ cat.save = "DatabaseError" =>
              (cat.key \in bucket /\ ~Referenced(cat.key))

\* The orphan: an uploaded object that no record references, after the
\* save of product_create failed.
C14_Witness ==
    /\ cat.op = "create"
    /\ cat.stage = "end"
    /\ cat.upload = "ok"
    /\ cat.save = "DatabaseError"
    /\ cat.key \in bucket
    /\ ~Referenced(cat.key)

(***************************************************************************)
(* C15.  After a product_update that replaces the image, the stored record *)
(* never references a key whose object this request deleted; the old image *)
(* is deleted only after the new upload succeeded.                         *)
(***************************************************************************)
C15_RecordNeverDangling ==
    (cat.op = "update" /\ cat.stage = "end") =>
        /\ cat.deleted # 0 => cat.upload = "ok"
        /\ cat.deleted # 0 => products[cat.pk] # cat.deleted

=============================================================================
